---- MODULE Spec2Model ----
(***************************************************************************)
(* Game collection REST API: the three versions of the games router kept   *)
(* in the repository (part_000 lines 1-244, part_000 lines 246-449 and     *)
(* routes/games.js), the Game table of the Prisma schema and the image     *)
(* directory public/images written by multer.                              *)
(*                                                                         *)
(* A request is served in steps: the multer middleware (when the route has *)
(* it and the request carries a file) with the handler up to its first     *)
(* await, then one step for each awaited operation.                        *)
(***************************************************************************)
EXTENDS Integers, Sequences, FiniteSets, TLC

VARIABLES variant, db, nextId, files, now, calls

vars == <<variant, db, nextId, files, now, calls>>

(***************************************************************************)
(* Bounds of the model.                                                    *)
(***************************************************************************)
MaxId == 2          \* ids the autoincrement counter may hand out
MaxTime == 1        \* last clock tick (ms since the clock started) of an upload
MaxRand == 0        \* values 0..MaxRand of Math.round(Math.random() * 1000)
MaxVaried == 1      \* fields of a payload that differ from its base payload

(***************************************************************************)
(* JavaScript values: undefined, null, strings and booleans.  A string is   *)
(* the sequence of its UTF-16 code units; a code unit is written as its    *)
(* character, or as "U+hhhh" where TLA+ has no notation for the character. *)
(***************************************************************************)
Undef == [t |-> "undefined", s |-> <<>>, b |-> FALSE]
Null == [t |-> "null", s |-> <<>>, b |-> FALSE]
Str(s) == [t |-> "string", s |-> s, b |-> FALSE]
Bool(b) == [t |-> "boolean", s |-> <<>>, b |-> b]

\* ToBoolean: what `!x`, `x && y` and `x || y` test
Truthy(v) ==
    CASE v.t = "string" -> Len(v.s) > 0
      [] v.t = "boolean" -> v.b
      [] OTHER -> FALSE

\* x || y
Or(x, y) == IF Truthy(x) THEN x ELSE y

\* JsString, as RegExp.prototype.test applies it to its argument
JsString(v) ==
    CASE v.t = "string" -> v.s
      [] v.t = "undefined" -> <<"u", "n", "d", "e", "f", "i", "n", "e", "d">>
      [] v.t = "null" -> <<"n", "u", "l", "l">>
      [] v.t = "boolean" -> IF v.b THEN <<"t", "r", "u", "e">>
                                   ELSE <<"f", "a", "l", "s", "e">>

Digit == {"0", "1", "2", "3", "4", "5", "6", "7", "8", "9"}
Lower == {"a", "b", "c", "d", "e", "f", "g", "h", "i", "j", "k", "l", "m",
          "n", "o", "p", "q", "r", "s", "t", "u", "v", "w", "x", "y", "z"}
Upper == {"A", "B", "C", "D", "E", "F", "G", "H", "I", "J", "K", "L", "M",
          "N", "O", "P", "Q", "R", "S", "T", "U", "V", "W", "X", "Y", "Z"}
\* the code units \s matches: WhiteSpace and LineTerminator
Space == {" ", "\t", "\n", "\r", "\f", "U+000B", "U+00A0", "U+1680",
          "U+2000", "U+2001", "U+2002", "U+2003", "U+2004", "U+2005", "U+2006",
          "U+2007", "U+2008", "U+2009", "U+200A", "U+2028", "U+2029", "U+202F",
          "U+205F", "U+3000", "U+FEFF"}
AlnumSpace == Lower \cup Upper \cup Digit \cup Space

DigitChar(d) == <<"0", "1", "2", "3", "4", "5", "6", "7", "8", "9">>[d + 1]

\* decimal digits of a natural number (Number.prototype.toString)
RECURSIVE ToDigits(_)
ToDigits(n) ==
    IF n < 10 THEN <<DigitChar(n)>>
    ELSE ToDigits(n \div 10) \o <<DigitChar(n % 10)>>

\* String.prototype.padStart(2, '0')
PadStart2(s) == IF Len(s) < 2 THEN <<"0">> \o s ELSE s

DigitValue(c) == CHOOSE d \in 0..9 : DigitChar(d) = c

HexDigit == <<"0", "1", "2", "3", "4", "5", "6", "7", "8", "9",
              "a", "b", "c", "d", "e", "f">>

LowerCase(c) ==
    IF c \in Upper
    THEN LET alphabet == <<"a", "b", "c", "d", "e", "f", "g", "h", "i", "j", "k", "l", "m",
                           "n", "o", "p", "q", "r", "s", "t", "u", "v", "w", "x", "y", "z">>
             capitals == <<"A", "B", "C", "D", "E", "F", "G", "H", "I", "J", "K", "L", "M",
                           "N", "O", "P", "Q", "R", "S", "T", "U", "V", "W", "X", "Y", "Z">>
         IN  alphabet[CHOOSE i \in 1..26 : capitals[i] = c]
    ELSE c

\* the digits of radix `radix`
RadixDigits(radix) == {HexDigit[i] : i \in 1..radix}

RadixValue(c) == (CHOOSE i \in 1..16 : HexDigit[i] = LowerCase(c)) - 1

\* the string without its leading white space
RECURSIVE TrimStart(_)
TrimStart(s) ==
    IF Len(s) > 0 /\ Head(s) \in Space THEN TrimStart(Tail(s)) ELSE s

\* the string without its trailing white space
RECURSIVE TrimEnd(_)
TrimEnd(s) ==
    IF Len(s) > 0 /\ s[Len(s)] \in Space THEN TrimEnd(SubSeq(s, 1, Len(s) - 1)) ELSE s

\* the longest prefix of s made of digits of the radix
RECURSIVE DigitPrefix(_, _)
DigitPrefix(s, radix) ==
    IF Len(s) > 0 /\ LowerCase(Head(s)) \in RadixDigits(radix)
    THEN <<Head(s)>> \o DigitPrefix(Tail(s), radix)
    ELSE <<>>

\* the value of a string of digits of the radix
RECURSIVE RadixNumber(_, _)
RadixNumber(s, radix) ==
    IF Len(s) = 0 THEN 0
    ELSE radix * RadixNumber(SubSeq(s, 1, Len(s) - 1), radix) + RadixValue(s[Len(s)])

\* parseInt(s) without a radix: white space, a sign, 0x or 0X, then the
\* digits the rest starts with
ParseIntParts(s) ==
    LET t == TrimStart(s)
        signed == Len(t) > 0 /\ Head(t) \in {"+", "-"}
        u == IF signed THEN Tail(t) ELSE t
        hex == Len(u) >= 2 /\ u[1] = "0" /\ u[2] \in {"x", "X"}
        radix == IF hex THEN 16 ELSE 10
        body == IF hex THEN SubSeq(u, 3, Len(u)) ELSE u
    IN  [negative |-> signed /\ Head(t) = "-", radix |-> radix,
         digits |-> DigitPrefix(body, radix)]

\* parseInt(s) is NaN: there is no digit to read
ParseIntIsNaN(s) == ParseIntParts(s).digits = <<>>

\* parseInt(s), when it is a number
ParseInt(s) ==
    LET parts == ParseIntParts(s)
        n == RadixNumber(parts.digits, parts.radix)
    IN  IF parts.negative THEN 0 - n ELSE n

IsDigits(s, radix) ==
    Len(s) > 0 /\ \A i \in 1..Len(s) : LowerCase(s[i]) \in RadixDigits(radix)

\* ExponentPart of a decimal literal, or nothing
IsExponent(s) ==
    \/ s = <<>>
    \/ /\ Head(s) \in {"e", "E"}
       /\ LET r == Tail(s)
          IN  IsDigits(IF Len(r) > 0 /\ Head(r) \in {"+", "-"} THEN Tail(r) ELSE r, 10)

\* StrUnsignedDecimalLiteral: Infinity, digits with an optional fraction, or
\* a fraction, with an optional exponent
IsUnsignedDecimal(s) ==
    \/ s = <<"I", "n", "f", "i", "n", "i", "t", "y">>
    \/ LET int == DigitPrefix(s, 10)
           r == SubSeq(s, Len(int) + 1, Len(s))
           dotted == Len(r) > 0 /\ Head(r) = "."
           frac == IF dotted THEN DigitPrefix(Tail(r), 10) ELSE <<>>
           rest == IF dotted THEN SubSeq(r, Len(frac) + 2, Len(r)) ELSE r
       IN  /\ Len(int) + Len(frac) > 0
           /\ IsExponent(rest)

\* StringNumericLiteral: Number(s) is a number
IsNumericLiteral(s) ==
    LET t == TrimEnd(TrimStart(s))
        prefixed == Len(t) >= 2 /\ t[1] = "0"
        digits == SubSeq(t, 3, Len(t))
    IN  \/ t = <<>>
        \/ IsUnsignedDecimal(IF Head(t) \in {"+", "-"} THEN Tail(t) ELSE t)
        \/ prefixed /\ t[2] \in {"x", "X"} /\ IsDigits(digits, 16)
        \/ prefixed /\ t[2] \in {"o", "O"} /\ IsDigits(digits, 8)
        \/ prefixed /\ t[2] \in {"b", "B"} /\ IsDigits(digits, 2)

\* isNaN(s) of a string: Number(s) is NaN
IsNaN(s) == ~IsNumericLiteral(s)

(***************************************************************************)
(* The validation patterns.                                                *)
(***************************************************************************)
TitleMaxLen == 100
DescriptionMaxLen == 500

\* /^[a-zA-Z0-9\s]{1,100}$/ : titlePattern, developerPattern, publisherPattern
titlePattern(s) ==
    /\ Len(s) \in 1..TitleMaxLen
    /\ \A i \in 1..Len(s) : s[i] \in AlnumSpace

developerPattern(s) == titlePattern(s)

publisherPattern(s) == titlePattern(s)

\* /^[\s\S]{1,500}$/
descriptionPattern(s) == Len(s) \in 1..DescriptionMaxLen

\* /^(0[1-9]|1[0-2])-(0[1-9]|[12][0-9]|3[01])-(\d{4})$/
releaseDatePattern(s) ==
    /\ Len(s) = 10
    /\ \/ s[1] = "0" /\ s[2] \in Digit \ {"0"}
       \/ s[1] = "1" /\ s[2] \in {"0", "1", "2"}
    /\ s[3] = "-"
    /\ \/ s[4] = "0" /\ s[5] \in Digit \ {"0"}
       \/ s[4] \in {"1", "2"} /\ s[5] \in Digit
       \/ s[4] = "3" /\ s[5] \in {"0", "1"}
    /\ s[6] = "-"
    /\ \A i \in 7..10 : s[i] \in Digit

(***************************************************************************)
(* multer.diskStorage: the name under which an upload is stored.           *)
(***************************************************************************)
\* file.originalname.split('.').pop()
RECURSIVE Ext(_)
Ext(name) ==
    IF \A i \in 1..Len(name) : name[i] # "." THEN name
    ELSE Ext(Tail(name))

\* Date.now() + '-' + Math.round(Math.random() * 1000) + '.' + ext
uniqueFilename1(t, r, orig) ==
    ToDigits(t) \o <<"-">> \o ToDigits(r) \o <<".">> \o Ext(orig)

\* the calendar fields of `new Date()` while the clock is in its first minute
ClockStart == [year |-> 1970, month |-> 0, date |-> 1, hours |-> 0, minutes |-> 0]

getSeconds(t) == (t \div 1000) % 60

\* `${year}-${month + 1}-${date}_${hours}-${minutes}-${seconds}-${random}.${ext}`
uniqueFilename2(t, r, orig) ==
    ToDigits(ClockStart.year) \o <<"-">>
        \o PadStart2(ToDigits(ClockStart.month + 1)) \o <<"-">>
        \o PadStart2(ToDigits(ClockStart.date)) \o <<"_">>
        \o PadStart2(ToDigits(ClockStart.hours)) \o <<"-">>
        \o PadStart2(ToDigits(ClockStart.minutes)) \o <<"-">>
        \o PadStart2(ToDigits(getSeconds(t))) \o <<"-">>
        \o ToDigits(r) \o <<".">> \o Ext(orig)

uniqueFilename(v, t, r, orig) ==
    IF v = 2 THEN uniqueFilename2(t, r, orig) ELSE uniqueFilename1(t, r, orig)

(***************************************************************************)
(* The Game table (schema.prisma) and the Prisma client calls.             *)
(* A row holds title, description and filename as required strings,        *)
(* developer, publisher and releaseDate as strings or null, completed as   *)
(* a boolean.                                                              *)
(***************************************************************************)
RequiredString == {"title", "description", "filename"}
OptionalString == {"developer", "publisher", "releaseDate"}
Columns == RequiredString \cup OptionalString \cup {"completed"}

\* the argument validation of prisma.game.create
CreateArgsValid(data) ==
    /\ \A c \in RequiredString : data[c].t = "string"
    /\ \A c \in OptionalString : data[c].t \in {"string", "null", "undefined"}
    /\ data.completed.t = "boolean"

\* the row prisma.game.create inserts: an optional column left undefined is null
CreateRow(data) ==
    [c \in Columns |->
        IF c \in OptionalString /\ data[c].t = "undefined" THEN Null ELSE data[c]]

\* the argument validation of prisma.game.update: undefined leaves a column alone
UpdateArgsValid(data) ==
    /\ \A c \in RequiredString : data[c].t \in {"string", "undefined"}
    /\ \A c \in OptionalString : data[c].t \in {"string", "null", "undefined"}
    /\ data.completed.t \in {"boolean", "undefined"}

\* the row prisma.game.update leaves
UpdateRow(row, data) ==
    [c \in Columns |-> IF data[c].t = "undefined" THEN row[c] ELSE data[c]]

\* the table with the row of `id` set
Put(d, id, row) ==
    [i \in DOMAIN d \cup {id} |-> IF i = id THEN row ELSE d[i]]

\* the table without the row of `id`
Remove(d, id) == [i \in DOMAIN d \ {id} |-> d[i]]

(***************************************************************************)
(* Requests.  A body is the five text fields and `completed`; `file` is    *)
(* the original name of the uploaded image, or undefined.  A multipart     *)
(* body holds strings only; a boolean `completed` comes in a JSON body,    *)
(* which carries no file.                                                  *)
(***************************************************************************)
TextFields == {"title", "description", "developer", "publisher", "releaseDate"}

FieldValues ==
    [title |-> {Undef, Str(<<"H", "a", "l", "o">>),
                Str(<<"D", "o", "o", "m">>), Str(<<"H", "a", "l", "o", "!">>)},
     description |-> {Undef, Str(<<>>), Str(<<"f", "p", "s">>)},
     developer |-> {Undef, Str(<<"i", "d">>)},
     publisher |-> {Undef, Str(<<"G", "T">>)},
     releaseDate |-> {Undef, Str(<<"0", "4", "-", "1", "8", "-", "2", "0", "1", "1">>),
                      Str(<<"1", "3", "-", "0", "1", "-", "2", "0", "2", "0">>)}]

\* the body of the scenario "create a game": every field present and well formed
FullBody ==
    [title |-> Str(<<"H", "a", "l", "o">>),
     description |-> Str(<<"f", "p", "s">>),
     developer |-> Str(<<"i", "d">>),
     publisher |-> Str(<<"G", "T">>),
     releaseDate |-> Str(<<"0", "4", "-", "1", "8", "-", "2", "0", "1", "1">>)]

\* the body that supplies no text field
EmptyBody == [c \in TextFields |-> Undef]

\* the bodies that differ from `base` in at most k fields
RECURSIVE Vary(_, _)
Vary(base, k) ==
    IF k = 0 THEN {base}
    ELSE LET less == Vary(base, k - 1)
         IN  less \cup UNION {{[b EXCEPT ![c] = v] : b \in less, v \in FieldValues[c]} :
                                  c \in TextFields}

CompletedValues == {Undef, Str(<<"t", "r", "u", "e">>),
                    Str(<<"f", "a", "l", "s", "e">>), Bool(TRUE)}

OrigNames == {<<"c", ".", "p", "n", "g">>}

FileValues == {Undef} \cup {Str(o) : o \in OrigNames}

Request(body, completed, file) ==
    [title |-> body.title, description |-> body.description,
     developer |-> body.developer, publisher |-> body.publisher,
     releaseDate |-> body.releaseDate, completed |-> completed, file |-> file]

\* the body that supplies a new title and nothing else
TitleBody == [EmptyBody EXCEPT !.title = Str(<<"D", "o", "o", "m">>)]

\* every body with and without a file, and the bodies of `flagged` with
\* every value of `completed` as well
Requests(bodies, flagged) ==
    {Request(b, Undef, f) : b \in bodies, f \in FileValues}
        \cup {q \in {Request(b, c, f) : b \in flagged, c \in CompletedValues,
                                        f \in FileValues} :
                 q.completed.t = "boolean" => q.file = Undef}

CreateRequests == Requests(Vary(FullBody, MaxVaried), {FullBody})

UpdateRequests == Requests(Vary(EmptyBody, MaxVaried), {EmptyBody, TitleBody})

NoRequest == Request(EmptyBody, Undef, Undef)

\* :id route parameters that are numbers and no integers: parseInt reads 1
\* of the first and nothing of the second
OddIds == {<<"1", ".", "5">>, <<".", "5">>}

\* the :id route parameters: the ids the table can hold, one that is no
\* number, and the odd ones
IdParams == {ToDigits(i) : i \in 1..MaxId} \cup {<<"a", "b", "c">>} \cup OddIds

\* the updates: every payload for the plain ids, the new title (with and
\* without a file) for the odd ones
UpdateParams ==
    {u \in IdParams \X UpdateRequests :
        u[1] \in OddIds => u[2] \in Requests({TitleBody}, {})}

(***************************************************************************)
(* First version of the router (part_000, lines 1-244).                    *)
(* `file` is req.file.filename, or undefined when no file was uploaded.    *)
(***************************************************************************)
\* the first failing check of POST /create, "ok" when none fails
validateCreate1(req) ==
    IF \E c \in TextFields : ~Truthy(req[c]) THEN "required"
    ELSE IF ~titlePattern(JsString(req.title)) THEN "title"
    ELSE IF ~descriptionPattern(JsString(req.description)) THEN "description"
    ELSE IF ~developerPattern(JsString(req.developer)) THEN "developer"
    ELSE IF ~publisherPattern(JsString(req.publisher)) THEN "publisher"
    ELSE IF ~releaseDatePattern(JsString(req.releaseDate)) THEN "releaseDate"
    ELSE "ok"

\* completed === 'true'
completedBool1(completed) == Bool(completed = Str(<<"t", "r", "u", "e">>))

\* the data object of prisma.game.create
createData1(req, file) ==
    [title |-> req.title, description |-> req.description,
     developer |-> req.developer, publisher |-> req.publisher,
     releaseDate |-> req.releaseDate,
     completed |-> completedBool1(req.completed),
     filename |-> IF Truthy(file) THEN file ELSE Null]

\* the first failing check of PUT /photo/update/:id, "ok" when none fails
validateUpdate1(req, file) ==
    IF (\A c \in TextFields : ~Truthy(req[c])) /\ ~Truthy(file) THEN "none"
    ELSE IF Truthy(req.title) /\ ~titlePattern(JsString(req.title)) THEN "title"
    ELSE IF Truthy(req.description) /\ ~descriptionPattern(JsString(req.description))
         THEN "description"
    ELSE IF Truthy(req.developer) /\ ~developerPattern(JsString(req.developer))
         THEN "developer"
    ELSE IF Truthy(req.publisher) /\ ~publisherPattern(JsString(req.publisher))
         THEN "publisher"
    ELSE IF Truthy(req.releaseDate) /\ ~releaseDatePattern(JsString(req.releaseDate))
         THEN "releaseDate"
    ELSE "ok"

\* updateData1 with the text fields passed as received instead of merged
updateDataAsReceived(req, file, existingGame) ==
    [title |-> req.title, description |-> req.description,
     developer |-> req.developer, publisher |-> req.publisher,
     releaseDate |-> req.releaseDate,
     completed |-> Or(completedBool1(req.completed), existingGame.completed),
     filename |-> IF Truthy(file) THEN file ELSE existingGame.filename]

\* the data object of prisma.game.update
updateData1(req, file, existingGame) ==
    [title |-> Or(req.title, existingGame.title),
     description |-> Or(req.description, existingGame.description),
     developer |-> Or(req.developer, existingGame.developer),
     publisher |-> Or(req.publisher, existingGame.publisher),
     releaseDate |-> Or(req.releaseDate, existingGame.releaseDate),
     completed |-> Or(completedBool1(req.completed), existingGame.completed),
     filename |-> IF Truthy(file) THEN file ELSE existingGame.filename]

\* whether the module imports `fs`, which existsSync and unlinkSync are called on
fsImported(v) == v # 2

\* fs.existsSync(path.join('public/images', name))
existsSync(f, name) == name \in f

\* unlink that leaves the file in place
unlinkKeepingFile(f, name) == f

\* the image directory after unlink (unlinkSync) of a file it holds
unlink(f, name) == f \ {name}

\* the old image is to be removed: req.file && existingGame.filename, and it exists
oldFileFound(file, existingGame, f) ==
    Truthy(file) /\ Truthy(existingGame.filename)
        /\ existsSync(f, existingGame.filename.s)

(***************************************************************************)
(* Second version of the router (part_000, lines 246-449).                 *)
(***************************************************************************)
\* the first failing check of POST /create, "ok" when none fails
validateCreate2(req) ==
    IF \E c \in TextFields : ~Truthy(req[c]) THEN "required"
    ELSE IF ~releaseDatePattern(JsString(req.releaseDate)) THEN "releaseDate"
    ELSE "ok"

\* the first failing check of PUT /photo/update/:id, "ok" when none fails
validateUpdate2(req, file) ==
    IF (\A c \in TextFields : ~Truthy(req[c])) /\ ~Truthy(file) THEN "none"
    ELSE IF Truthy(req.releaseDate) /\ ~releaseDatePattern(JsString(req.releaseDate))
         THEN "releaseDate"
    ELSE "ok"

\* the data object of prisma.game.update
updateData2(req, file) ==
    [title |-> req.title, description |-> req.description,
     developer |-> req.developer, publisher |-> req.publisher,
     releaseDate |-> req.releaseDate,
     completed |-> completedBool1(req.completed),
     filename |-> IF Truthy(file) THEN file ELSE Null]

(***************************************************************************)
(* Third version of the router (routes/games.js).                          *)
(***************************************************************************)
\* completed === true
completedBool3(completed) == Bool(completed = Bool(TRUE))

\* the data object of prisma.game.create
addData3(req, file) ==
    [title |-> req.title, description |-> req.description,
     developer |-> req.developer, publisher |-> req.publisher,
     releaseDate |-> req.releaseDate,
     completed |-> completedBool3(req.completed),
     filename |-> IF Truthy(file) THEN file ELSE Null]

\* the check of POST /add and of PUT /update/:id (there when releaseDate is sent)
validateDate3(req) ==
    IF ~releaseDatePattern(JsString(req.releaseDate)) THEN "releaseDate" ELSE "ok"

\* the data object of prisma.game.update
updateData3(req, file, existingGame) ==
    [title |-> Or(req.title, existingGame.title),
     description |-> Or(req.description, existingGame.description),
     developer |-> Or(req.developer, existingGame.developer),
     publisher |-> Or(req.publisher, existingGame.publisher),
     releaseDate |-> Or(req.releaseDate, existingGame.releaseDate),
     completed |-> IF req.completed.t = "undefined" THEN existingGame.completed
                   ELSE completedBool3(req.completed),
     filename |-> Or(IF Truthy(file) THEN file ELSE Null, existingGame.filename)]

(***************************************************************************)
(* The router the application mounts.                                      *)
(***************************************************************************)
\* the first failing check of the create payload, "ok" when none fails
validateCreate(v, req) ==
    CASE v = 1 -> validateCreate1(req)
      [] v = 2 -> validateCreate2(req)
      [] v = 3 -> validateDate3(req)

\* the data object of prisma.game.create
createData(v, req, file) ==
    IF v = 3 THEN addData3(req, file) ELSE createData1(req, file)

\* the first failing check of the update payload, "ok" when none fails
validateUpdate(v, req, file) ==
    CASE v = 1 -> validateUpdate1(req, file)
      [] v = 2 -> validateUpdate2(req, file)
      [] v = 3 -> IF Truthy(req.releaseDate) THEN validateDate3(req) ELSE "ok"

\* the data object of prisma.game.update
updateData(v, req, file, existingGame) ==
    CASE v = 1 -> updateData1(req, file, existingGame)
      [] v = 2 -> updateData2(req, file)
      [] v = 3 -> updateData3(req, file, existingGame)

(***************************************************************************)
(* Requests in flight.  An async handler runs without interruption up to   *)
(* its next `await`; the awaited operation (a query of the table, an       *)
(* unlink) takes effect in a later step of its own, and between the two    *)
(* the steps of other requests may run.                                    *)
(* calls[p] is request p: its route (op), where its handler stands (pc),   *)
(* its id parameter, payload and stored upload, the I/O operation that     *)
(* failed (fault), its response status ("unhandled" when the handler's     *)
(* promise rejects and no response is written), the row its findUnique     *)
(* returned, the table and the image directory at its arrival (db, files), *)
(* the effects it had so far (events), its place among the updates of the  *)
(* table (order), and whether no other request was in flight with it.      *)
(***************************************************************************)
\* upload.single('image'): req.file.filename, undefined when no file was sent
Stored(v, req, t, r) ==
    IF Truthy(req.file) THEN Str(uniqueFilename(v, t, r, req.file.s)) ELSE Undef

\* the image directory after multer wrote the upload
StoreFile(f, file) == IF Truthy(file) THEN f \cup {file.s} ELSE f

\* the upload is stored at clock tick t under random number r
UploadAt(req, t, r) ==
    /\ t \in now..MaxTime
    /\ r \in 0..MaxRand
    /\ Truthy(req.file) \/ (t = now /\ r = 0)

\* the requests the server can have in flight
Calls == {1, 2}

EmptyTable == [i \in {} |-> Null]

\* no request
Idle ==
    [op |-> "none", pc |-> "idle", id |-> <<>>, req |-> NoRequest, file |-> Undef,
     fault |-> "none", status |-> "none", existingGame |-> Null,
     db |-> EmptyTable, files |-> {}, events |-> <<>>, order |-> 0, alone |-> TRUE]

InFlight(q) == calls[q].pc \notin {"idle", "done"}

\* request p as it reaches its route
Arrived(p, op, id, req, file) ==
    [Idle EXCEPT !.op = op, !.id = id, !.req = req, !.file = file,
                 !.db = db, !.files = files,
                 !.events = IF Truthy(file) THEN <<"store">> ELSE <<>>,
                 !.alone = \A q \in Calls \ {p} : ~InFlight(q)]

\* request p is in flight as c, together with the requests already in flight
Enter(p, c) ==
    calls' = [q \in Calls |->
                IF q = p THEN c
                ELSE IF InFlight(q) THEN [calls[q] EXCEPT !.alone = FALSE]
                ELSE calls[q]]

\* request p ends with a response (or, "unhandled", with none)
Respond(p, status) ==
    [calls EXCEPT ![p].pc = "done", ![p].status = status]

\* request p ends after the I/O operation `fault` failed
Fail(p, fault, status) ==
    [calls EXCEPT ![p].pc = "done", ![p].status = status, ![p].fault = fault]

\* request p goes on to its next await
Await(p, pc, event) ==
    [calls EXCEPT ![p].pc = pc, ![p].events = Append(calls[p].events, event)]

Init ==
    /\ variant \in {1, 2, 3}
    /\ db = EmptyTable
    /\ nextId = 1
    /\ files = {}
    /\ now = 0
    /\ calls = [p \in Calls |-> Idle]

\* the exchange is over and the connection takes the next request
Listen(p) ==
    /\ calls[p].pc = "done"
    /\ calls' = [calls EXCEPT ![p] = Idle]
    /\ UNCHANGED <<variant, db, nextId, files, now>>

\* POST /create (versions 1 and 2), POST /add (version 3): multer stores the
\* upload, the handler checks the payload and calls prisma.game.create
Create(p) ==
    /\ calls[p].pc = "idle"
    /\ \E req \in CreateRequests, t \in 0..MaxTime, r \in 0..MaxRand :
        /\ UploadAt(req, t, r)
        /\ LET file == Stored(variant, req, t, r)
               c == Arrived(p, "create", <<>>, req, file)
               pending == Cardinality({q \in Calls : calls[q].pc = "create"})
           IN  /\ files' = StoreFile(files, file)
               /\ now' = t
               /\ IF validateCreate(variant, req) # "ok"
                  THEN Enter(p, [c EXCEPT !.pc = "done", !.status = "400"])
                  ELSE /\ nextId + pending <= MaxId
                       /\ Enter(p, [c EXCEPT !.pc = "create"])
    /\ UNCHANGED <<variant, db, nextId>>

\* prisma.game.create inserts the row, and the handler responds
PrismaCreate(p) ==
    /\ calls[p].pc = "create"
    /\ LET data == createData(variant, calls[p].req, calls[p].file)
       IN  IF ~CreateArgsValid(data)
           THEN /\ calls' = Respond(p, "unhandled")
                /\ UNCHANGED <<db, nextId>>
           ELSE \/ /\ calls' = Fail(p, "write", "unhandled")
                   /\ UNCHANGED <<db, nextId>>
                \/ /\ db' = Put(db, nextId, CreateRow(data))
                   /\ nextId' = nextId + 1
                   /\ calls' = [Await(p, "done", "write") EXCEPT ![p].status = "200"]
    /\ UNCHANGED <<variant, files, now>>

\* GET /photo/all (versions 1 and 2), GET /all (version 3)
List(p) ==
    /\ calls[p].pc = "idle"
    /\ Enter(p, [Arrived(p, "list", <<>>, NoRequest, Undef) EXCEPT !.pc = "findMany"])
    /\ UNCHANGED <<variant, db, nextId, files, now>>

\* prisma.game.findMany returns the rows, and the handler responds
FindMany(p) ==
    /\ calls[p].pc = "findMany"
    /\ \/ calls' = Fail(p, "find", "unhandled")
       \/ calls' = Respond(p, IF variant = 3 /\ DOMAIN db = {} THEN "400" ELSE "200")
    /\ UNCHANGED <<variant, db, nextId, files, now>>

\* a route with an :id parameter: isNaN(id), then the call of findUnique
Route(p, op, id, req, file) ==
    LET c == Arrived(p, op, id, req, file)
    IN  Enter(p, IF IsNaN(id) THEN [c EXCEPT !.pc = "done", !.status = "400"]
                 ELSE [c EXCEPT !.pc = "find"])

\* GET /photo/read/:id (versions 1 and 2), GET /get/:id (version 3)
Read(p) ==
    /\ calls[p].pc = "idle"
    /\ \E id \in IdParams : Route(p, "read", id, NoRequest, Undef)
    /\ UNCHANGED <<variant, db, nextId, files, now>>

\* PUT /photo/update/:id (versions 1 and 2), PUT /update/:id (version 3):
\* multer stores the upload, then the handler runs up to `await findUnique`
Update(p) ==
    /\ calls[p].pc = "idle"
    /\ \E u \in UpdateParams, t \in 0..MaxTime, r \in 0..MaxRand :
        /\ UploadAt(u[2], t, r)
        /\ files' = StoreFile(files, Stored(variant, u[2], t, r))
        /\ now' = t
        /\ Route(p, "update", u[1], u[2], Stored(variant, u[2], t, r))
    /\ UNCHANGED <<variant, db, nextId>>

\* DELETE /delete/:id
Delete(p) ==
    /\ calls[p].pc = "idle"
    /\ \E id \in IdParams : Route(p, "delete", id, NoRequest, Undef)
    /\ UNCHANGED <<variant, db, nextId, files, now>>

\* the update handler from the row findUnique returned up to its next
\* await: the payload checks, then the unlink of the old image (version 1)
\* or prisma.game.update
Found(p, existingGame) ==
    LET c == calls[p]
        seen == [Await(p, "update", "lookup") EXCEPT ![p].existingGame = existingGame]
    IN  IF validateUpdate(variant, c.req, c.file) # "ok"
             THEN [seen EXCEPT ![p].pc = "done", ![p].status = "400"]
        ELSE IF variant = 3 THEN seen
        ELSE IF Truthy(c.file) /\ Truthy(existingGame.filename) /\ ~fsImported(variant)
             THEN [seen EXCEPT ![p].pc = "done", ![p].status = "unhandled"]
        ELSE IF oldFileFound(c.file, existingGame, files)
             THEN [seen EXCEPT ![p].pc = "unlink"]
        ELSE seen

\* prisma.game.findUnique returns the row or null, or rejects; read and
\* delete catch the rejection, update does not
FindUnique(p) ==
    /\ calls[p].pc = "find"
    /\ LET c == calls[p]
           pid == ParseInt(c.id)
           rejected == IF c.op = "update" THEN "unhandled" ELSE "500"
       IN  IF ParseIntIsNaN(c.id) THEN calls' = Respond(p, rejected)
           ELSE \/ calls' = Fail(p, "find", rejected)
                \/ calls' =
                     IF pid \notin DOMAIN db THEN Respond(p, "404")
                     ELSE CASE c.op = "read" -> Respond(p, "200")
                            [] c.op = "update" -> Found(p, db[pid])
                            [] c.op = "delete" ->
                                 [calls EXCEPT ![p].pc = "delete",
                                               ![p].existingGame = db[pid]]
    /\ UNCHANGED <<variant, db, nextId, files, now>>

\* the catch block of the unlink that continues with the update
unlinkRejectedIgnored(p, fault) ==
    IF calls[p].op = "update" THEN [calls EXCEPT ![p].pc = "update", ![p].fault = fault]
    ELSE Fail(p, fault, "500")

\* the rejection of fsPromises.unlink is caught: the update returns 500 from
\* its catch block, the delete answers 500 in the catch block of the handler
unlinkRejected(p, fault) == Fail(p, fault, "500")

\* await fsPromises.unlink (version 1): the old image of an update, or the
\* image of a deleted record; it rejects when the file is gone
Unlink(p) ==
    /\ calls[p].pc = "unlink"
    /\ LET name == calls[p].existingGame.filename.s
       IN  IF name \notin files
           THEN /\ calls' = unlinkRejected(p, "none")
                /\ files' = files
           ELSE \/ /\ calls' = unlinkRejected(p, "unlink")
                   /\ files' = files
                \/ /\ files' = unlink(files, name)
                   /\ calls' = IF calls[p].op = "update" THEN Await(p, "update", "unlink")
                               ELSE Respond(p, "200")
    /\ UNCHANGED <<variant, db, nextId, now>>

\* how many updates have written the table
Written == Cardinality({q \in Calls : calls[q].order > 0})

\* PrismaUpdate with the data merged from the row stored at the time of the
\* write instead of the row the request read
PrismaUpdateOfStoredRow(p) ==
    /\ calls[p].pc = "update"
    /\ LET c == calls[p]
           pid == ParseInt(c.id)
           data == updateData(variant, c.req, c.file, db[pid])
       IN  IF pid \notin DOMAIN db \/ ~UpdateArgsValid(data)
           THEN /\ calls' = Respond(p, "unhandled")
                /\ db' = db
           ELSE \/ /\ calls' = Fail(p, "write", "unhandled")
                   /\ db' = db
                \/ /\ db' = Put(db, pid, UpdateRow(db[pid], data))
                   /\ calls' = [Await(p, "done", "write") EXCEPT
                                   ![p].status = "200", ![p].order = Written + 1]
    /\ UNCHANGED <<variant, nextId, files, now>>

\* prisma.game.update writes the row, and the handler responds; it rejects
\* when the data is not valid or the row is gone
PrismaUpdate(p) ==
    /\ calls[p].pc = "update"
    /\ LET c == calls[p]
           pid == ParseInt(c.id)
           data == updateData(variant, c.req, c.file, c.existingGame)
       IN  IF ~UpdateArgsValid(data) \/ pid \notin DOMAIN db
           THEN /\ calls' = Respond(p, "unhandled")
                /\ db' = db
           ELSE \/ /\ calls' = Fail(p, "write", "unhandled")
                   /\ db' = db
                \/ /\ db' = Put(db, pid, UpdateRow(db[pid], data))
                   /\ calls' = [Await(p, "done", "write") EXCEPT
                                   ![p].status = "200", ![p].order = Written + 1]
    /\ UNCHANGED <<variant, nextId, files, now>>

\* prisma.game.delete removes the row (it rejects when the row is gone);
\* then the handler removes the image of the record, if it exists: with
\* `await fsPromises.unlink` in version 1, with unlinkSync in version 3,
\* and version 2 throws at fs.existsSync
PrismaDelete(p) ==
    /\ calls[p].pc = "delete"
    /\ LET game == calls[p].existingGame
           pid == ParseInt(calls[p].id)
           name == game.filename.s
       IN  IF pid \notin DOMAIN db
           THEN /\ calls' = Respond(p, "500")
                /\ UNCHANGED <<db, files>>
           ELSE \/ /\ calls' = Fail(p, "write", "500")
                   /\ UNCHANGED <<db, files>>
                \/ /\ db' = Remove(db, pid)
                   /\ IF ~Truthy(game.filename)
                      THEN calls' = Respond(p, "200") /\ files' = files
                      ELSE IF ~fsImported(variant)
                      THEN calls' = Respond(p, "500") /\ files' = files
                      ELSE IF ~existsSync(files, name)
                      THEN calls' = Respond(p, "200") /\ files' = files
                      ELSE IF variant = 1
                      THEN calls' = [calls EXCEPT ![p].pc = "unlink"] /\ files' = files
                      ELSE IF name \notin files
                      THEN calls' = Respond(p, "500") /\ files' = files
                      ELSE \/ calls' = Fail(p, "unlink", "500") /\ files' = files
                           \/ calls' = Respond(p, "200") /\ files' = unlink(files, name)
    /\ UNCHANGED <<variant, nextId, now>>

\* the steps of the request in flight
Step(p) ==
    \/ PrismaCreate(p) \/ FindMany(p) \/ FindUnique(p)
    \/ Unlink(p) \/ PrismaUpdate(p) \/ PrismaDelete(p)

\* the client sends one request at a time, the next one after the response
Next ==
    \/ Create(1) \/ List(1) \/ Read(1) \/ Update(1) \/ Delete(1)
    \/ Step(1) \/ Listen(1)

Spec == Init /\ [][Next]_vars

(***************************************************************************)
(* Two clients, each sending one request; the table is empty or holds one  *)
(* record.                                                                 *)
(***************************************************************************)
\* the first request of the scenario "create a game", sent with an image
Seed == Request(FullBody, Undef, Str(CHOOSE o \in OrigNames : TRUE))

\* the application has just started, or Seed, sent at clock tick 0, has
\* been served
InitRace ==
    \/ Init
    \/ /\ variant \in {1, 2, 3}
       /\ db = Put(EmptyTable, 1,
                   CreateRow(createData(variant, Seed, Stored(variant, Seed, 0, 0))))
       /\ nextId = 2
       /\ files = StoreFile({}, Stored(variant, Seed, 0, 0))
       /\ now = 0
       /\ calls = [p \in Calls |-> Idle]

NextRace ==
    \E p \in Calls :
        \/ Create(p) \/ List(p) \/ Read(p) \/ Update(p) \/ Delete(p)
        \/ Step(p)

SpecRace == InitRace /\ [][NextRace]_vars

(***************************************************************************)
(* Properties of requests served one at a time.  `last` is the request     *)
(* just served, with the table (last.db) and the image directory           *)
(* (last.files) it found.                                                  *)
(***************************************************************************)
last == IF calls[1].pc = "done" THEN calls[1] ELSE Idle

\* no request is in flight
Quiet == \A p \in Calls : ~InFlight(p)

\* the record the request addressed, as it was before the request
Target == last.db[ParseInt(last.id)]

\* the record the request addressed, as it is now
Current == db[ParseInt(last.id)]

\* the request addressed a record that existed
HitsRecord == ~IsNaN(last.id) /\ ParseInt(last.id) \in DOMAIN last.db

UpdateDone == last.op = "update" /\ last.status = "200"

\* C1: after a successful update, every text field that the request left out
\* or sent empty, and the filename when no file was uploaded, has in the
\* stored record the value it had before the update.
MergeLaw ==
    UpdateDone =>
        /\ \A c \in TextFields : ~Truthy(last.req[c]) => Current[c] = Target[c]
        /\ ~Truthy(last.file) => Current.filename = Target.filename

\* a successful update that sent an empty description and a new image, and
\* left the other text fields out
MergeLawWitness ==
    /\ UpdateDone
    /\ last.req.description = Str(<<>>)
    /\ last.req.title = Undef
    /\ Truthy(last.file)
    /\ Current.description = Str(<<"f", "p", "s">>)
    /\ Current.title = Target.title

\* the boolean a supplied `completed` parses to: "true" or true
ParsedCompleted(v) == Bool(v = Str(<<"t", "r", "u", "e">>) \/ v = Bool(TRUE))

\* C2: after a successful update, `completed` is the parsed boolean of the
\* supplied flag, and is unchanged when the flag was left out.
CompletedFollowsPayload ==
    UpdateDone =>
        Current.completed = IF last.req.completed = Undef THEN Target.completed
                            ELSE ParsedCompleted(last.req.completed)

\* the request was rejected for its body, not for its id
BodyRejected ==
    /\ last.status = "400"
    /\ \/ last.op = "create"
       \/ last.op = "update" /\ HitsRecord

\* C3: a create or update rejected with a validation error leaves the table
\* and the image directory as they were.
RejectionHasNoEffect ==
    BodyRejected => db = last.db /\ files = last.files

\* C4: whenever no request is in flight, every live record's filename names
\* a file of the image directory, and no two live records have the same
\* filename.
FilenameIntegrity ==
    Quiet =>
        /\ \A i \in DOMAIN db :
              Truthy(db[i].filename) => db[i].filename.s \in files
        /\ \A i, j \in DOMAIN db :
              i # j /\ Truthy(db[i].filename) => db[i].filename # db[j].filename

DeleteDone == last.op = "delete" /\ last.status = "200"

\* C5: a successful delete removes the record, removes the record's image
\* and no other file, and removes no file when the record has no filename.
DeleteRemovesOwnFile ==
    DeleteDone =>
        /\ db = Remove(last.db, ParseInt(last.id))
        /\ files = IF Truthy(Target.filename)
                   THEN last.files \ {Target.filename.s}
                   ELSE last.files

\* a successful delete that removed the record's image and left another file
DeleteRemovesOwnFileWitness ==
    /\ DeleteDone
    /\ Target.filename.s \in last.files
    /\ Target.filename.s \notin files
    /\ files # {}

\* C6: without an I/O failure, deleting an id that has no record answers 404
\* and changes nothing, and deleting a record whose image is already absent
\* deletes the record and answers 200.
DeleteOfGoneTarget ==
    (last.op = "delete" /\ last.fault = "none" /\ ~IsNaN(last.id)) =>
        /\ ParseInt(last.id) \notin DOMAIN last.db =>
              last.status = "404" /\ db = last.db /\ files = last.files
        /\ (HitsRecord /\ Truthy(Target.filename)
                /\ Target.filename.s \notin last.files) =>
              last.status = "200" /\ ParseInt(last.id) \notin DOMAIN db

\* the body passes every rule of the create use case
ValidCreate(req) ==
    /\ \A c \in TextFields : Truthy(req[c])
    /\ titlePattern(JsString(req.title))
    /\ descriptionPattern(JsString(req.description))
    /\ developerPattern(JsString(req.developer))
    /\ publisherPattern(JsString(req.publisher))
    /\ releaseDatePattern(JsString(req.releaseDate))

\* C7: a valid create, when no I/O fails, answers 200 and inserts one record
\* whose filename is the stored name of the upload, or null without upload.
ValidCreateSucceeds ==
    (last.op = "create" /\ last.fault = "none" /\ ValidCreate(last.req)) =>
        /\ last.status = "200"
        /\ \E i \in DOMAIN db \ DOMAIN last.db :
              /\ db = Put(last.db, i, db[i])
              /\ db[i].filename = IF Truthy(last.file) THEN last.file ELSE Null

UnlinkFailed == last.op = "update" /\ last.fault = "unlink"

\* C8: when removing the old image fails during an update, the answer is 500,
\* the table is not modified and the record's filename still names a file of
\* the image directory.
FailedUnlinkAborts ==
    UnlinkFailed =>
        /\ last.status = "500"
        /\ db = last.db
        /\ Current.filename.s \in files

\* an update whose unlink of the old image failed
FailedUnlinkAbortsWitness ==
    /\ UnlinkFailed
    /\ Truthy(last.file)
    /\ Target.filename.s \in last.files

\* C9: a failed datastore or filesystem operation ends the request with a
\* server-error response.
FailureBecomes500 ==
    last.fault # "none" => last.status = "500"

\* the rule a present field has to pass
FormatOk(c, v) ==
    CASE c = "title" -> titlePattern(JsString(v))
      [] c = "description" -> descriptionPattern(JsString(v))
      [] c = "developer" -> developerPattern(JsString(v))
      [] c = "publisher" -> publisherPattern(JsString(v))
      [] c = "releaseDate" -> releaseDatePattern(JsString(v))

\* C10: an update of an existing record that supplies no text field and no
\* file is answered 400 and changes nothing, and an update is accepted only
\* if it supplies one and every supplied field passes its rule.
UpdateValidation ==
    (last.op = "update" /\ HitsRecord /\ last.fault = "none") =>
        /\ ((\A c \in TextFields : ~Truthy(last.req[c])) /\ ~Truthy(last.file)) =>
              last.status = "400" /\ db = last.db
        /\ last.status = "200" =>
              \A c \in TextFields : Truthy(last.req[c]) => FormatOk(c, last.req[c])

\* C13: after any sequence of requests served one at a time, every file in
\* the image directory is the filename of a record of the table, and a
\* create or update that carried an upload and was rejected (400, 404 or
\* 500) left no new file in the directory.
NoOrphanFiles ==
    /\ Quiet => \A name \in files : \E i \in DOMAIN db : db[i].filename = Str(name)
    /\ (last.status \in {"400", "404", "500"} /\ Truthy(last.file)) =>
           files \subseteq last.files

(***************************************************************************)
(* Properties of the requests in flight (SpecRace).                        *)
(***************************************************************************)
\* C11: an update that uploads a new image, served with no other request
\* in flight, has its effects in this order:
\* the record is looked up and the payload validated, then the previous
\* image is removed (unless it is missing), then the new file is stored,
\* then the record's filename is written; after the update succeeded the
\* previous file is absent, the new file is present, and the record's
\* filename is the new name.
UploadOrder ==
    \A p \in Calls :
        (calls[p].alone /\ calls[p].op = "update" /\ calls[p].status = "200"
             /\ Truthy(calls[p].file)) =>
            LET c == calls[p]
            IN  /\ c.events \in {<<"lookup", "unlink", "store", "write">>,
                                  <<"lookup", "store", "write">>}
                /\ c.existingGame.filename.s \notin files
                /\ c.file.s \in files
                /\ db[ParseInt(c.id)].filename = c.file

\* the record request p merged from the row it read and its payload
Merged(p) ==
    updateData(variant, calls[p].req, calls[p].file, calls[p].existingGame)

\* request p wrote its record, and no request wrote that record after it
WroteLast(p) ==
    /\ calls[p].order > 0
    /\ \A q \in Calls :
          (calls[q].order > 0 /\ ParseInt(calls[q].id) = ParseInt(calls[p].id)) =>
              calls[q].order <= calls[p].order

\* C12: when update requests for one id interleave at their awaits, the
\* stored record is, in every column, the record merged by the request
\* whose prisma.game.update took effect last; no column keeps what an
\* earlier write put there.
LastWriteWins ==
    \A p \in Calls :
        (WroteLast(p) /\ \A q \in Calls : calls[q].op \in {"none", "update"}) =>
            \A c \in Columns : db[ParseInt(calls[p].id)][c] = Merged(p)[c]

\* both requests read the record before either wrote it; the first writer
\* changed the title, the last writer did not, and the title is the old one
LastWriteWinsWitness ==
    \E p, q \in Calls :
        /\ calls[q].order = 1 /\ calls[p].order = 2
        /\ calls[p].id = calls[q].id
        /\ calls[q].existingGame = calls[p].existingGame
        /\ Truthy(calls[q].req.title)
        /\ calls[q].req.title # calls[p].existingGame.title
        /\ ~Truthy(calls[p].req.title)
        /\ db[ParseInt(calls[p].id)].title = calls[p].existingGame.title

====
